---------------------------- MODULE Spec2Model ----------------------------
(***************************************************************************)
(* A model of latex-component-selector.py: the LatexParser (extraction of  *)
(* components, assembly of a custom document), the CompilationThread (the  *)
(* three pdflatex passes and the classification of the pass-1 log) and the *)
(* handlers of the LatexComponentSelector window that drive them.          *)
(*                                                                         *)
(* Text is modelled as a sequence of lexical tokens.  Every string literal *)
(* and regular expression of the program is a sequence of whole tokens, so *)
(* searching, matching and replacing on token sequences is what the        *)
(* program does on characters.                                             *)
(***************************************************************************)
EXTENDS Naturals, Sequences, FiniteSets, TLC

VARIABLES
    srcFile,    \* the text of the source document the user works on
    parser,     \* the LatexParser of the source document
    texFile,    \* custom_report.tex in each output directory (NoFile: absent)
    images,     \* the names of the files in <output directory>/images
    generated,  \* the call of generate_custom_tex by a client of the parser
    reparser,   \* a LatexParser reading an assembled document back
    gui,        \* the widgets of the LatexComponentSelector window
    logFile,    \* <basename>.log in the output directory (NoFile: absent)
    pdfFile,    \* <basename>.pdf in the output directory
    threads     \* the CompilationThread objects that are alive

vars == <<srcFile, parser, texFile, images, generated, reparser, gui,
          logFile, pdfFile, threads>>

\* what no step of a CompilationThread touches
mainVars == <<srcFile, parser, texFile, images, generated, reparser, gui>>

-----------------------------------------------------------------------------
(* Bounds of the model.                                                    *)

MaxLogLen == 4          \* tokens in a log file written by pass 1

-----------------------------------------------------------------------------
(* Generic helpers on token sequences.                                     *)

\* the content of a file that does not exist (no file holds this token)
NoFile == <<"(no such file)">>
NoIdx == 0

Last(s) == s[Len(s)]

\* s.find(tok, from): the first index >= from holding tok, NoIdx when none
RECURSIVE FirstTok(_, _, _)
FirstTok(s, from, tok) ==
    IF from > Len(s) THEN NoIdx
    ELSE IF s[from] = tok THEN from
    ELSE FirstTok(s, from + 1, tok)

Range(s) == {s[i] : i \in DOMAIN s}

\* all sequences over S of length at most n
RECURSIVE SeqsUpTo(_, _)
SeqsUpTo(S, n) ==
    IF n = 0 THEN {<<>>}
    ELSE LET shorter == SeqsUpTo(S, n - 1)
         IN  shorter \cup {Append(s, e) : s \in {t \in shorter : Len(t) = n - 1}, e \in S}

-----------------------------------------------------------------------------
(* The log file of pdflatex, as tokens.                                    *)

NL         == "\n"
TLatexErr  == "! LaTeX Error: "
TPackage   == "! Package "
TError     == " Error: "
TMissing   == "! Missing "
TNoFile    == "No file "
TUndefined == "! Undefined control sequence"
TEmergency == "! Emergency stop"
TText      == "x"

LogTokens ==
    {NL, TLatexErr, TPackage, TError, TMissing, TNoFile, TUndefined, TEmergency, TText}

Logs == SeqsUpTo(LogTokens, MaxLogLen)


-----------------------------------------------------------------------------
(* CompilationThread._check_log_for_errors                                 *)

\* the list error_patterns: (regular expression, error_type), in its order.
\* "line": <head>(.*?)\n   "package": ! Package (.*?) Error: (.*?)\n
\* "literal": <head>, a pattern without any group
error_patterns ==
    << [shape |-> "line",    head |-> TLatexErr,  error_type |-> "LaTeX Error"],
       [shape |-> "package", head |-> TPackage,   error_type |-> "Package Error"],
       [shape |-> "line",    head |-> TMissing,   error_type |-> "Missing Element"],
       [shape |-> "line",    head |-> TNoFile,    error_type |-> "Missing File"],
       [shape |-> "literal", head |-> TUndefined, error_type |-> "Undefined Command"],
       [shape |-> "literal", head |-> TEmergency, error_type |-> "Emergency Stop"] >>

\* re.finditer(pattern, log_content, re.MULTILINE) from position p on: the
\* matches left to right, none overlapping; "." matches no newline, and the
\* groups are lazy.  A match is [start, end (exclusive), groups].
RECURSIVE FindIter(_, _, _)
FindIter(pat, log, p) ==
    IF p > Len(log) THEN <<>>
    ELSE IF log[p] # pat.head THEN FindIter(pat, log, p + 1)
    ELSE LET nl == FirstTok(log, p + 1, NL)
             er == FirstTok(log, p + 1, TError)
         IN  CASE pat.shape = "literal" ->
                    <<[start |-> p, end |-> p + 1, groups |-> <<>>]>>
                        \o FindIter(pat, log, p + 1)
               [] pat.shape = "line" /\ nl # NoIdx ->
                    <<[start |-> p, end |-> nl + 1,
                       groups |-> <<SubSeq(log, p + 1, nl - 1)>>]>>
                        \o FindIter(pat, log, nl + 1)
               [] pat.shape = "package" /\ nl # NoIdx /\ er # NoIdx /\ er < nl ->
                    <<[start |-> p, end |-> nl + 1,
                       groups |-> <<SubSeq(log, p + 1, er - 1),
                                    SubSeq(log, er + 1, nl - 1)>>]>>
                        \o FindIter(pat, log, nl + 1)
               [] OTHER -> FindIter(pat, log, p + 1)

\* f"{error_type}: {match.group(1)}"
ErrorString(error_type, group1) == <<error_type \o ": ">> \o group1

\* the two nested loops, from pattern k on.  match.group(1) raises IndexError
\* ("no such group") on a match of a pattern that has no group.
RECURSIVE ClassifyFrom(_, _)
ClassifyFrom(log, k) ==
    IF k > Len(error_patterns) THEN [raised |-> FALSE, errors |-> <<>>]
    ELSE LET pat  == error_patterns[k]
             ms   == FindIter(pat, log, 1)
             here == [i \in DOMAIN ms |-> ErrorString(pat.error_type, ms[i].groups[1])]
             rest == ClassifyFrom(log, k + 1)
         IN  IF \E i \in DOMAIN ms : Len(ms[i].groups) < 1
             THEN [raised |-> TRUE, errors |-> <<>>]
             ELSE IF rest.raised THEN rest
             ELSE [raised |-> FALSE, errors |-> here \o rest.errors]

\* the matches of all patterns with their pattern index and position
AllMatches(log) ==
    UNION { LET pat == error_patterns[k]
                ms  == FindIter(pat, log, 1)
            IN  { [pat   |-> k,
                   start |-> ms[i].start,
                   str   |-> ErrorString(pat.error_type,
                                IF ms[i].groups = <<>> THEN <<>> ELSE ms[i].groups[1])]
                  : i \in DOMAIN ms }
          : k \in DOMAIN error_patterns }

\* m before n: by position in the log ("file"), or by pattern and then by
\* position ("pattern")
Before(order, m, n) ==
    IF order = "file" THEN m.start < n.start
    ELSE m.pat < n.pat \/ (m.pat = n.pat /\ m.start < n.start)

\* the match records of set S as a sequence, ascending in the given order
RECURSIVE Sorted(_, _)
Sorted(S, order) ==
    IF S = {} THEN <<>>
    ELSE LET first == CHOOSE m \in S : \A n \in S \ {m} : Before(order, m, n)
         IN  <<first>> \o Sorted(S \ {first}, order)

Strs(ms) == [i \in DOMAIN ms |-> ms[i].str]

\* _check_log_for_errors collecting the matches in the order of the log file
check_log_in_file_order(log_content) ==
    IF \E m \in AllMatches(log_content) : error_patterns[m.pat].shape = "literal"
    THEN [raised |-> TRUE, errors |-> <<>>]
    ELSE [raised |-> FALSE, errors |-> Strs(Sorted(AllMatches(log_content), "file"))]

check_log_for_errors(log_content) == ClassifyFrom(log_content, 1)

\* "\n".join(errors)
RECURSIVE JoinNL(_)
JoinNL(strs) ==
    IF strs = <<>> THEN <<>>
    ELSE IF Len(strs) = 1 THEN strs[1]
    ELSE strs[1] \o <<NL>> \o JoinNL(Tail(strs))

-----------------------------------------------------------------------------
(* LaTeX text, as tokens: commands, braces, brackets, words, white space.  *)

MaxBody == 3            \* pieces in the body of a source document

Space == " "
WhiteSpace == {Space, NL}
LB == "{"
RB == "}"
LK == "["
RK == "]"

BeginDocument == <<"\\begin", LB, "document", RB>>
EndDocument   == <<"\\end", LB, "document", RB>>

\* s[p:p+len(lit)] == lit, p counted from 1
StartsAt(s, p, lit) ==
    /\ p + Len(lit) - 1 <= Len(s)
    /\ SubSeq(s, p, p + Len(lit) - 1) = lit

\* s.find(lit) from position from on: the position (from 1) or NoIdx
RECURSIVE Find(_, _, _)
Find(s, lit, from) ==
    IF from + Len(lit) - 1 > Len(s) THEN NoIdx
    ELSE IF StartsAt(s, from, lit) THEN from
    ELSE Find(s, lit, from + 1)

\* lit in s
Contains(s, lit) == Find(s, lit, 1) # NoIdx

\* s.replace(old, new), old not empty
RECURSIVE Replace(_, _, _)
Replace(s, old, new) ==
    IF s = <<>> THEN <<>>
    ELSE IF StartsAt(s, 1, old)
    THEN new \o Replace(SubSeq(s, Len(old) + 1, Len(s)), old, new)
    ELSE <<s[1]>> \o Replace(Tail(s), old, new)

RECURSIVE LStrip(_)
LStrip(s) == IF s # <<>> /\ s[1] \in WhiteSpace THEN LStrip(Tail(s)) ELSE s

RECURSIVE RStrip(_)
RStrip(s) ==
    IF s # <<>> /\ Last(s) \in WhiteSpace THEN RStrip(SubSeq(s, 1, Len(s) - 1)) ELSE s

Strip(s) == LStrip(RStrip(s))

\* re.sub(r'\s+', ' ', s)
RECURSIVE CollapseSpace(_)
CollapseSpace(s) ==
    IF s = <<>> THEN <<>>
    ELSE IF s[1] \in WhiteSpace THEN <<Space>> \o CollapseSpace(LStrip(s))
    ELSE <<s[1]>> \o CollapseSpace(Tail(s))

\* len(s), in characters
RECURSIVE CharLen(_)
CharLen(s) == IF s = <<>> THEN 0 ELSE Len(s[1]) + CharLen(Tail(s))

\* s[:n], n in characters; a token cut in two is written token[:k]
RECURSIVE TakeChars(_, _)
TakeChars(s, n) ==
    IF s = <<>> \/ n = 0 THEN <<>>
    ELSE IF Len(s[1]) <= n THEN <<s[1]>> \o TakeChars(Tail(s), n - Len(s[1]))
    ELSE <<s[1] \o "[:" \o ToString(n) \o "]">>

-----------------------------------------------------------------------------
(* LatexParser.extract_components                                          *)

TitleLimit == 50        \* if len(title) > 50
TitleKept  == 47        \* title[:47] + "..."

SectionHead       == <<"\\section", LB>>
SubsectionHead    == <<"\\subsection", LB>>
SubsubsectionHead == <<"\\subsubsection", LB>>

\* the list component_patterns.  Each regular expression is: the head, a
\* title ([^}]+), a closing brace and, but for the document class, a body of
\* every character before which none of the heads in stops begins.
component_patterns ==
    << [head |-> <<"\\documentclass", LB>>, has_body |-> FALSE, stops |-> {},
        comp_type |-> "Document Class", is_preamble |-> TRUE],
       [head |-> SectionHead, has_body |-> TRUE, stops |-> {SectionHead},
        comp_type |-> "Section", is_preamble |-> FALSE],
       [head |-> SubsectionHead, has_body |-> TRUE,
        stops |-> {SectionHead, SubsectionHead},
        comp_type |-> "Subsection", is_preamble |-> FALSE],
       [head |-> SubsubsectionHead, has_body |-> TRUE,
        stops |-> {SectionHead, SubsectionHead, SubsubsectionHead},
        comp_type |-> "Subsubsection", is_preamble |-> FALSE] >>

\* a body that ends before the next heading of any level
RECURSIVE BodyEndAtAnyHeading(_, _, _)
BodyEndAtAnyHeading(text, from, stops) ==
    IF from > Len(text) THEN Len(text) + 1
    ELSE IF \E lit \in {SectionHead, SubsectionHead, SubsubsectionHead} :
                StartsAt(text, from, lit)
    THEN from
    ELSE BodyEndAtAnyHeading(text, from + 1, stops)

\* ((?:(?!stop1|stop2...)[\s\S])*) from position from: where the body ends
\* (exclusive)
RECURSIVE BodyEnd(_, _, _)
BodyEnd(text, from, stops) ==
    IF from > Len(text) THEN Len(text) + 1
    ELSE IF \E lit \in stops : StartsAt(text, from, lit) THEN from
    ELSE BodyEnd(text, from + 1, stops)

\* re.finditer(pattern, search_text, re.DOTALL) from position p on
RECURSIVE FindComponents(_, _, _)
FindComponents(pat, text, p) ==
    IF p > Len(text) THEN <<>>
    ELSE LET open  == p + Len(pat.head)
             close == FirstTok(text, open, RB)
         IN  IF StartsAt(text, p, pat.head) /\ close # NoIdx /\ close > open
             THEN LET e == IF pat.has_body THEN BodyEnd(text, close + 1, pat.stops)
                           ELSE close + 1
                  IN  <<[start  |-> p, end |-> e,
                         group0 |-> SubSeq(text, p, e - 1),
                         group1 |-> SubSeq(text, open, close - 1)]>>
                          \o FindComponents(pat, text, e)
             ELSE FindComponents(pat, text, p + 1)

\* the title of a component: stripped, white space collapsed, cut to 47
\* characters and "..." when longer than 50
Title(group1) ==
    LET title == Strip(CollapseSpace(Strip(group1)))
    IN  IF CharLen(title) > TitleLimit
        THEN TakeChars(title, TitleKept) \o <<"...">>
        ELSE title

\* doc_begin and doc_end as offsets from 0, with their defaults
DocBegin(full_content) ==
    IF Find(full_content, BeginDocument, 1) = NoIdx THEN 0
    ELSE Find(full_content, BeginDocument, 1) - 1

DocEnd(full_content) ==
    IF Find(full_content, EndDocument, 1) = NoIdx THEN Len(full_content)
    ELSE Find(full_content, EndDocument, 1) - 1

\* the components one pattern adds, in the order of its matches
ComponentsOf(pat, full_content) ==
    LET doc_begin   == DocBegin(full_content)
        search_text == IF pat.is_preamble
                       THEN SubSeq(full_content, 1, doc_begin)
                       ELSE SubSeq(full_content, doc_begin + 1, DocEnd(full_content))
        shift       == IF pat.is_preamble THEN 0 ELSE doc_begin
        ms          == FindComponents(pat, search_text, 1)
    IN  [i \in DOMAIN ms |->
            [type        |-> pat.comp_type,
             name        |-> Title(ms[i].group1),
             content     |-> ms[i].group0,
             start       |-> ms[i].start - 1 + shift,
             end         |-> ms[i].end - 1 + shift,
             id          |-> pat.comp_type \o "_" \o ToString(i),
             is_preamble |-> pat.is_preamble]]

\* the list left as the four patterns filled it, pattern after pattern
Unsorted(comps) == comps

\* list.sort(key=lambda x: x['start']): a stable sort
RECURSIVE SortByStart(_)
SortByStart(comps) ==
    IF comps = <<>> THEN <<>>
    ELSE LET i == CHOOSE i \in DOMAIN comps :
                     /\ \A j \in DOMAIN comps : comps[i].start <= comps[j].start
                     /\ \A j \in 1..(i - 1) : comps[j].start # comps[i].start
         IN  <<comps[i]>>
                 \o SortByStart(SubSeq(comps, 1, i - 1) \o SubSeq(comps, i + 1, Len(comps)))

\* self.components after extract_components; the empty list when
\* full_content is empty (the method returns False)
ExtractComponents(full_content) ==
    IF full_content = <<>> THEN <<>>
    ELSE SortByStart(ComponentsOf(component_patterns[1], full_content)
                  \o ComponentsOf(component_patterns[2], full_content)
                  \o ComponentsOf(component_patterns[3], full_content)
                  \o ComponentsOf(component_patterns[4], full_content))

-----------------------------------------------------------------------------
(* LatexParser._copy_images                                                *)

\* the image files that exist beside the source document, by path
ExistingImages == {<<"v">>, <<"k">>}

\* the list image_patterns: \cmd(?:\[.*?\])?\{(.*?)\} for includegraphics,
\* \cmd\{(.*?)\} for the other two
image_patterns ==
    << [cmd |-> "\\includegraphics", options |-> TRUE],
       [cmd |-> "\\graphicspath",    options |-> FALSE],
       [cmd |-> "\\figure",          options |-> FALSE] >>

NoNewlineIn(text, from, to) ==
    \A i \in from..to : text[i] # NL

\* \{(.*?)\} with the opening brace at q: the position of the closing brace
\* or NoIdx; "." matches no newline
BraceGroup(text, q) ==
    LET close == FirstTok(text, q + 1, RB)
    IN  IF q <= Len(text) /\ text[q] = LB /\ close # NoIdx
           /\ NoNewlineIn(text, q + 1, close - 1)
        THEN close ELSE NoIdx

\* \[.*?\] with the opening bracket at q, followed by a brace group: the
\* position of the closing bracket, the first that lets the rest match
OptionsEnd(text, q) ==
    LET ends == {j \in (q + 1)..Len(text) :
                    /\ text[j] = RK
                    /\ NoNewlineIn(text, q + 1, j - 1)
                    /\ BraceGroup(text, j + 1) # NoIdx}
    IN  IF ends = {} THEN NoIdx ELSE CHOOSE j \in ends : \A i \in ends : j <= i

\* re.finditer(pattern, content) from position p on
RECURSIVE FindImages(_, _, _)
FindImages(pat, text, p) ==
    IF p > Len(text) THEN <<>>
    ELSE LET brace == IF pat.options /\ p < Len(text) /\ text[p + 1] = LK
                      THEN (IF OptionsEnd(text, p + 1) = NoIdx THEN NoIdx
                            ELSE OptionsEnd(text, p + 1) + 1)
                      ELSE p + 1
             close == IF brace = NoIdx THEN NoIdx ELSE BraceGroup(text, brace)
         IN  IF text[p] = pat.cmd /\ close # NoIdx
             THEN <<[group0 |-> SubSeq(text, p, close),
                     group1 |-> SubSeq(text, brace + 1, close - 1)]>>
                      \o FindImages(pat, text, close + 1)
             ELSE FindImages(pat, text, p + 1)

\* os.path.join('images', os.path.basename(original_path))
RelPath(img_path) == <<"images/", Last(img_path)>>

\* f'\\includegraphics[width=\\textwidth]{{{rel_path}}}'
NewCmd(rel_path) ==
    <<"\\includegraphics", LK, "width=", "\\textwidth", RK, LB>> \o rel_path \o <<RB>>

\* the body of the loop for one match, on modified_content
RewriteOne(modified, m) ==
    IF m.group1 = <<>> \/ m.group1 \notin ExistingImages THEN modified
    ELSE IF "\\includegraphics" \in Range(m.group0)
    THEN Replace(modified, m.group0, NewCmd(RelPath(m.group1)))
    ELSE Replace(modified, m.group1, RelPath(m.group1))

RECURSIVE RewriteAll(_, _)
RewriteAll(modified, ms) ==
    IF ms = <<>> THEN modified
    ELSE RewriteAll(RewriteOne(modified, ms[1]), Tail(ms))

\* all matches, pattern by pattern, found in content as it was passed in
ImageMatches(content) ==
    FindImages(image_patterns[1], content, 1)
        \o FindImages(image_patterns[2], content, 1)
        \o FindImages(image_patterns[3], content, 1)

\* the text _copy_images returns
CopyImages(content) == RewriteAll(content, ImageMatches(content))

\* the files it copies into <output_dir>/images, by name
CopiedBy(content) ==
    {Last(m.group1) : m \in {n \in Range(ImageMatches(content)) :
                                n.group1 # <<>> /\ n.group1 \in ExistingImages}}

-----------------------------------------------------------------------------
(* LatexParser.generate_custom_tex                                         *)

UsepackageGraphicx == <<"\\usepackage", LB, "graphicx", RB>>
UsepackageFinal    == <<"\\usepackage", LK, "final", RK, LB, "graphicx", RB>>

\* re.sub(r'\\usepackage\[.*?draft.*?\]{graphicx}', r'\\usepackage[final]{graphicx}', s)
RECURSIVE SubGraphicxDraft(_)
SubGraphicxDraft(s) ==
    IF s = <<>> THEN <<>>
    ELSE LET d == FirstTok(s, 3, "draft")
             rs == {r \in (d + 1)..Len(s) : StartsAt(s, r, <<RK, LB, "graphicx", RB>>)}
             r == CHOOSE r \in rs : \A q \in rs : r <= q
         IN  IF StartsAt(s, 1, <<"\\usepackage", LK>>) /\ d # NoIdx /\ rs # {}
                /\ NoNewlineIn(s, 3, r - 1)
             THEN UsepackageFinal \o SubGraphicxDraft(SubSeq(s, r + 4, Len(s)))
             ELSE <<s[1]>> \o SubGraphicxDraft(Tail(s))

\* re.sub(r'\\documentclass\[(.*?)draft(.*?)\]', r'\\documentclass[\1final\2]', s)
RECURSIVE SubClassDraft(_)
SubClassDraft(s) ==
    IF s = <<>> THEN <<>>
    ELSE LET d == FirstTok(s, 3, "draft")
             r == FirstTok(s, d + 1, RK)
         IN  IF StartsAt(s, 1, <<"\\documentclass", LK>>) /\ d # NoIdx /\ r # NoIdx
                /\ NoNewlineIn(s, 3, r - 1)
             THEN SubSeq(s, 1, d - 1) \o <<"final">> \o SubSeq(s, d + 1, r)
                      \o SubClassDraft(SubSeq(s, r + 1, Len(s)))
             ELSE <<s[1]>> \o SubClassDraft(Tail(s))

\* the local variable preamble when the method reaches os.makedirs: the two
\* substitutions rebind it, after the text it held first was appended to
\* new_content, and nothing reads it afterwards
PreambleLocal(full_content) ==
    LET preamble == RStrip(SubSeq(full_content, 1, DocBegin(full_content)))
        first    == IF ~Contains(preamble, UsepackageGraphicx) THEN preamble
                    ELSE SubGraphicxDraft(preamble)
    IN  IF Contains(first, <<"\\documentclass", LK>>) THEN SubClassDraft(first)
        ELSE first

\* PreambleParts without the preamble of the source
PreambleDropped(full_content) == <<UsepackageFinal>>

\* the parts of new_content before '\\begin{document}'
PreambleParts(full_content) ==
    LET preamble == RStrip(SubSeq(full_content, 1, DocBegin(full_content)))
    IN  IF ~Contains(preamble, UsepackageGraphicx)
        THEN <<preamble, UsepackageFinal>>
        ELSE <<preamble>>

\* the parts the loop over the components in their_order appends
RECURSIVE BodyParts(_, _)
BodyParts(their_order, selected_ids) ==
    IF their_order = <<>> THEN <<>>
    ELSE LET component == their_order[1]
             rest      == BodyParts(Tail(their_order), selected_ids)
         IN  IF component.id \in selected_ids /\ ~component.is_preamble
             THEN <<<<NL>> \o CopyImages(Strip(component.content))>> \o rest
             ELSE rest

\* BodyParts looping over the selection as it was passed in
BodyPartsInSelectionOrder(components, selected_components) ==
    BodyParts(selected_components, {c.id : c \in Range(components)})

\* the loop of generate_custom_tex over self.components
BodyPartsOf(components, selected_components) ==
    BodyParts(components, {c.id : c \in Range(selected_components)})

\* the list new_content when the file is written
NewContent(full_content, components, selected_components) ==
    PreambleParts(full_content)
        \o <<BeginDocument>>
        \o BodyPartsOf(components, selected_components)
        \o << <<NL>> \o EndDocument \o <<NL>> >>

\* the images the selected components make _copy_images copy
RECURSIVE CopiedImages(_, _)
CopiedImages(components, selected_ids) ==
    IF components = <<>> THEN {}
    ELSE (IF components[1].id \in selected_ids /\ ~components[1].is_preamble
          THEN CopiedBy(Strip(components[1].content)) ELSE {})
             \cup CopiedImages(Tail(components), selected_ids)

\* generate_custom_tex: what it returns, the text it writes and the images
\* it copies; nothing is written without a '\\begin{document}' or when the
\* directory or the file cannot be written
GenerateCustomTex(full_content, components, selected_components, io_ok) ==
    IF Find(full_content, BeginDocument, 1) = NoIdx
    THEN [returned |-> FALSE, written |-> NoFile, images |-> {}]
    ELSE IF ~io_ok
    THEN [returned |-> FALSE, written |-> NoFile,
          images |-> CopiedImages(components, {c.id : c \in Range(selected_components)})]
    ELSE [returned |-> TRUE,
          written  |-> JoinNL(NewContent(full_content, components, selected_components)),
          images   |-> CopiedImages(components, {c.id : c \in Range(selected_components)})]

-----------------------------------------------------------------------------
(* LatexParser objects                                                     *)

\* self.parser = None
NoParser == [made |-> FALSE, full_content |-> <<>>, components |-> <<>>]

\* LatexParser(file_path)
LatexParser == [made |-> TRUE, full_content |-> <<>>, components |-> <<>>]

\* read_file: the object afterwards; it returns read_ok
ReadFile(p, content, read_ok) ==
    IF read_ok THEN [p EXCEPT !.full_content = content] ELSE p

\* extract_components: the object afterwards; it returns False, and leaves
\* the object alone, when full_content is empty
Extract(p) ==
    IF p.full_content = <<>> THEN p
    ELSE [p EXCEPT !.components = ExtractComponents(p.full_content)]

\* no call of generate_custom_tex yet
NoCall == [selected |-> <<>>, output_dir |-> "", returned |-> FALSE, called |-> FALSE]

\* the call generate_custom_tex(selected_components, <dir>/custom_report.tex)
\* and what it returned; of the selected components their ids are kept
Call(selected_components, dir, returned) ==
    [selected   |-> [i \in DOMAIN selected_components |-> selected_components[i].id],
     output_dir |-> dir,
     returned   |-> returned,
     called     |-> TRUE]

-----------------------------------------------------------------------------
(* Source documents                                                        *)

RECURSIVE Concat(_)
Concat(ss) == IF ss = <<>> THEN <<>> ELSE ss[1] \o Concat(Tail(ss))

Heading(cmd, title) == <<cmd, LB>> \o title \o <<RB>>

\* a word of 47 characters
LongWord == "wwwwwwwwwwwwwwwwwwwwwwwwwwwwwwwwwwwwwwwwwwwwwww"

\* what a document body is made of: headings of the three levels, one of
\* them with a line of text, one with a figure reference whose file exists,
\* and a heading whose brace is never closed
Pieces ==
    { Heading("\\section", <<"k">>),
      Heading("\\section", <<"z">>) \o <<"y", NL>>,
      Heading("\\subsection", <<"z">>) \o <<"\\figure", LB, "k", RB>>,
      Heading("\\subsection", <<"x">>),
      Heading("\\subsubsection", <<"k">>),
      <<"\\subsection", LB, "z">> }

Bodies == {Concat(b) : b \in SeqsUpTo(Pieces, MaxBody)}

ClassPlain == <<"\\documentclass", LB, "article", RB, NL>>
ClassDraft == <<"\\documentclass", LK, "draft", RK, LB, "article", RB, NL>>

\* preambles: the document class with or without the draft option, and the
\* graphics package not included, included plainly, in draft or in final mode
Preambles ==
    {class \o gfx :
        class \in {ClassPlain, ClassDraft},
        gfx \in {<<>>,
                 UsepackageGraphicx \o <<NL>>,
                 <<"\\usepackage", LK, "draft", RK, LB, "graphicx", RB, NL>>,
                 UsepackageFinal \o <<NL>>}}

Doc(preamble, body) ==
    preamble \o BeginDocument \o <<NL>> \o body \o EndDocument \o <<NL>>

\* an image inclusion with options
Included(path) == <<"\\includegraphics", LK, "o", RK, LB>> \o path \o <<RB>>

\* an empty file, documents without one or both markers, titles with white
\* space, titles of 50 and of 51 characters, and inclusions of images that
\* exist and of one that does not
OddDocs ==
    { <<>>,
      Doc(ClassPlain, Heading("\\section", <<"k">>) \o Included(<<"v">>)
                          \o Heading("\\subsection", <<"z">>) \o Included(<<"v">>)
                          \o <<"\\includegraphics", LB, "q", RB>>),
      Doc(ClassPlain, Heading("\\section", <<"z">>) \o Included(<<"v">>)
                          \o <<"\\figure", LB, "k", RB, NL>>
                          \o Heading("\\section", <<"k">>)
                          \o <<"\\graphicspath", LB, "v", RB>> \o <<"v">>),
      Heading("\\section", <<"k">>) \o Heading("\\subsection", <<"z">>),
      ClassPlain \o BeginDocument \o Heading("\\section", <<"k">>) \o <<"y">>,
      Doc(ClassPlain, Heading("\\section", <<Space, "k", NL, Space, "z", NL>>)
                          \o Heading("\\subsection", <<"x">>)),
      Doc(ClassPlain, Heading("\\section", <<LongWord, "k", "k", "k">>)),
      Doc(ClassPlain, Heading("\\section", <<LongWord, "k", "k", "k", "k">>)
                          \o Heading("\\section", <<"z">>)) }

Docs ==
    {Doc(ClassPlain, body) : body \in Bodies}
        \cup {Doc(preamble, Heading("\\section", <<"k">>)) : preamble \in Preambles}
        \cup OddDocs

-----------------------------------------------------------------------------
(* CompilationThread                                                       *)

Dirs == {"out1", "out2"}            \* output directories the user may pick

PdfStates == {"absent", "empty", "nonempty"}   \* <basename>.pdf: missing, size 0, size > 0

\* what the external process may leave as <basename>.log after passes 2 and 3
PassLogs == {<<>>, <<TLatexErr, TText, NL>>, <<TUndefined>>}

\* how a subprocess step may end: Popen raises (nothing was run), the process
\* runs and communicate() raises, or the process runs and communicate() returns
Outcomes == {"popen_raises", "communicate_raises", "returns"}

Status(text)   == [sig |-> "update_status",   val |-> text]
Progress(n)    == [sig |-> "update_progress", val |-> n]
Finished(b, m) == [sig |-> "finished",        val |-> <<b, m>>]

\* the pair _compile_latex returns
Ok(pdf_file)     == [success |-> TRUE,  kind |-> "pdf_file",  msg |-> <<pdf_file>>]
Failed(kind, m)  == [success |-> FALSE, kind |-> kind,        msg |-> m]
NotReturned      == [success |-> FALSE, kind |-> "running",   msg |-> <<>>]

PdfMissingMsg == <<"PDF file was not generated successfully">>

\* the two command lines: pass 1, and passes 2 and 3
CmdFirst == [halt_on_error |-> TRUE,  no_pdf |-> TRUE]
CmdFull  == [halt_on_error |-> FALSE, no_pdf |-> FALSE]

\* CompilationThread(tex_file, output_dir), started
NewThread(dir) ==
    [tex_file    |-> dir,       \* <dir>/custom_report.tex
     output_dir  |-> dir,
     pc          |-> "compile",
     launched    |-> <<>>,      \* the command lines Popen has started, in order
     signals     |-> <<>>,      \* the signals emitted, in order
     log_content |-> NoFile,    \* the log a failed scan has read
     ret         |-> NotReturned]

Emit(th, sigs) == [th EXCEPT !.signals = @ \o sigs]

\* "except Exception as e: return False, str(e)" of _compile_latex
Raise(th, what) == [th EXCEPT !.pc = "return", !.ret = Failed("exception", <<what>>)]

\* _compile_latex up to the first Popen: os.makedirs(exist_ok=True) of the
\* directory generate_custom_tex has just written the .tex file into, then
\* the two emits
Begin(th) ==
    [Emit(th, <<Status("Running first compilation pass..."), Progress(20)>>)
        EXCEPT !.pc = "pass1"]

CompileBegin(t) ==
    /\ threads[t].pc = "compile"
    /\ threads' = [threads EXCEPT ![t] = Begin(@)]
    /\ UNCHANGED <<logFile, pdfFile, mainVars>>

\* Subprocess with a retry: a failed communicate() starts the command again
SubprocessRetried(th, cmd, outcome, next) ==
    CASE outcome = "popen_raises"       -> Raise(th, "Popen")
      [] outcome = "communicate_raises" ->
            [th EXCEPT !.launched = @ \o <<cmd, cmd>>, !.pc = next]
      [] OTHER -> [th EXCEPT !.launched = Append(@, cmd), !.pc = next]

\* one Popen(cmd) + communicate() of thread th: the thread afterwards
Subprocess(th, cmd, outcome, next) ==
    CASE outcome = "popen_raises"       -> Raise(th, "Popen")
      [] outcome = "communicate_raises" ->
            Raise([th EXCEPT !.launched = Append(@, cmd)], "communicate")
      [] OTHER -> [th EXCEPT !.launched = Append(@, cmd), !.pc = next]

\* pass 1: pdflatex -halt-on-error -no-pdf.  The process, when it was started,
\* leaves any log or none, and writes no PDF.
CompilePass1(t, logs) ==
    /\ threads[t].pc = "pass1"
    /\ \E outcome \in Outcomes :
          /\ threads' = [threads EXCEPT ![t] = Subprocess(@, CmdFirst, outcome, "scan")]
          /\ IF outcome = "popen_raises"
             THEN logFile' = logFile
             ELSE \E log \in logs \cup {NoFile} :
                      logFile' = [logFile EXCEPT ![threads[t].output_dir] = log]
    /\ UNCHANGED <<pdfFile, mainVars>>

\* ScanLog with update_progress(40) emitted before the log is looked at
ScanLogProgressFirst(th, log, read_ok) ==
    LET res  == check_log_for_errors(log)
        th40 == Emit(th, <<Progress(40)>>)
    IN  IF log = NoFile THEN [th40 EXCEPT !.pc = "pass2"]
        ELSE IF ~read_ok THEN Raise(th40, "open")
        ELSE IF res.raised
        THEN Raise([th40 EXCEPT !.log_content = log], "no such group")
        ELSE IF res.errors # <<>>
        THEN [Emit(th40, <<Status("LaTeX Errors Found")>>) EXCEPT
                  !.log_content = log,
                  !.pc = "return",
                  !.ret = Failed("errors", JoinNL(res.errors))]
        ELSE [th40 EXCEPT !.pc = "pass2"]

\* the scan of the pass-1 log, up to and including update_progress(40)
ScanLog(th, log, read_ok) ==
    LET res == check_log_for_errors(log)
    IN  IF log = NoFile
        THEN [Emit(th, <<Progress(40)>>) EXCEPT !.pc = "pass2"]
        ELSE IF ~read_ok THEN Raise(th, "open")
        ELSE IF res.raised
        THEN Raise([th EXCEPT !.log_content = log], "no such group")
        ELSE IF res.errors # <<>>
        THEN [Emit(th, <<Status("LaTeX Errors Found")>>) EXCEPT
                  !.log_content = log,
                  !.pc = "return",
                  !.ret = Failed("errors", JoinNL(res.errors))]
        ELSE [Emit(th, <<Progress(40)>>) EXCEPT !.pc = "pass2"]

CompileScanLog(t) ==
    /\ threads[t].pc = "scan"
    /\ \E read_ok \in BOOLEAN :
          threads' = [threads EXCEPT ![t] =
                          ScanLog(@, logFile[@.output_dir], read_ok)]
    /\ UNCHANGED <<logFile, pdfFile, mainVars>>

\* what a full pdflatex run leaves behind: a log of logs, and a PDF as in pdfs
RunFull(th, outcome, logs, pdfs) ==
    IF outcome = "popen_raises"
    THEN UNCHANGED <<logFile, pdfFile>>
    ELSE \E log \in logs, pdf \in pdfs :
            /\ logFile' = [logFile EXCEPT ![th.output_dir] = log]
            /\ pdfFile' = [pdfFile EXCEPT ![th.output_dir] = pdf]

\* pass 2, then update_progress(80)
Pass2(th, outcome) ==
    LET done == Subprocess(Emit(th, <<Status("Generating PDF...")>>),
                           CmdFull, outcome, "pass3")
    IN  IF outcome = "returns" THEN Emit(done, <<Progress(80)>>) ELSE done

CompilePass2(t, logs, pdfs) ==
    /\ threads[t].pc = "pass2"
    /\ \E outcome \in Outcomes :
          /\ threads' = [threads EXCEPT ![t] = Pass2(@, outcome)]
          /\ RunFull(threads[t], outcome, logs, pdfs)
    /\ UNCHANGED mainVars

\* pass 3
Pass3(th, outcome) ==
    Subprocess(Emit(th, <<Status("Finalizing references...")>>),
               CmdFull, outcome, "artifact")

CompilePass3(t, logs, pdfs) ==
    /\ threads[t].pc = "pass3"
    /\ \E outcome \in Outcomes :
          /\ threads' = [threads EXCEPT ![t] = Pass3(@, outcome)]
          /\ RunFull(threads[t], outcome, logs, pdfs)
    /\ UNCHANGED mainVars

\* CheckArtifact without the size test: os.path.exists(pdf_file) alone
CheckArtifactExistsOnly(th, pdf) ==
    IF pdf # "absent"
    THEN [Emit(th, <<Progress(100)>>) EXCEPT !.pc = "return", !.ret = Ok(th.output_dir)]
    ELSE [th EXCEPT !.pc = "return", !.ret = Failed("text", PdfMissingMsg)]

\* os.path.exists(pdf_file) and os.path.getsize(pdf_file) > 0
CheckArtifact(th, pdf) ==
    IF pdf = "nonempty"
    THEN [Emit(th, <<Progress(100)>>) EXCEPT !.pc = "return", !.ret = Ok(th.output_dir)]
    ELSE [th EXCEPT !.pc = "return", !.ret = Failed("text", PdfMissingMsg)]

CompileCheckArtifact(t) ==
    /\ threads[t].pc = "artifact"
    /\ threads' = [threads EXCEPT ![t] = CheckArtifact(@, pdfFile[@.output_dir])]
    /\ UNCHANGED <<logFile, pdfFile, mainVars>>

\* Run without finished.emit on the failure branch
RunSilentFailure(th) ==
    [Emit(th, IF th.ret.success
              THEN <<Status("PDF generated successfully"), Finished(TRUE, th.ret.msg)>>
              ELSE <<Status("Error during compilation")>>)
        EXCEPT !.pc = "done"]

\* CompilationThread.run after _compile_latex has returned
Run(th) ==
    [Emit(th, IF th.ret.success
              THEN <<Status("PDF generated successfully"), Finished(TRUE, th.ret.msg)>>
              ELSE <<Status("Error during compilation"), Finished(FALSE, th.ret.msg)>>)
        EXCEPT !.pc = "done"]

RunFinish(t) ==
    /\ threads[t].pc = "return"
    /\ threads' = [threads EXCEPT ![t] = Run(@)]
    /\ UNCHANGED <<logFile, pdfFile, mainVars>>

-----------------------------------------------------------------------------
(* LatexComponentSelector: the handlers of the window.  The value and the   *)
(* texts the widgets show are written and never read by the program; of    *)
(* them the model keeps the values generate_pdf gives the progress bar.    *)

MaxThreads == 2         \* CompilationThreads that may be running at a time

\* the window after __init__
InitGui ==
    [items            |-> <<>>,     \* component_list: the component of each item
     selected         |-> {},       \* the indices of the items that are selected
     generate_enabled |-> FALSE,    \* generate_button.isEnabled()
     run_progress     |-> <<>>,     \* progress_bar.setValue of the last generate_pdf
     alive            |-> TRUE]     \* the process has not been aborted

\* load_components(file_path): the window and self.parser afterwards
LoadComponents(g, content, read_ok) ==
    LET p == Extract(ReadFile(LatexParser, content, read_ok))
    IN  IF ~read_ok \/ p.full_content = <<>>
        THEN [gui |-> g, parser |-> p]
        ELSE [gui    |-> [g EXCEPT !.items = p.components,
                                   !.selected = {},
                                   !.generate_enabled = TRUE],
              parser |-> p]

\* browse_file, a file having been chosen in the dialog
BrowseFile ==
    /\ gui.alive
    /\ \E read_ok \in BOOLEAN :
          LET res == LoadComponents(gui, srcFile, read_ok)
          IN  gui' = res.gui /\ parser' = res.parser
    /\ UNCHANGED <<srcFile, texFile, images, generated, reparser,
                   logFile, pdfFile, threads>>

\* a click on item i of the list (QListWidget.MultiSelection)
ClickItem(i) ==
    /\ gui.alive
    /\ gui' = [gui EXCEPT !.selected = IF i \in @ THEN @ \ {i} ELSE @ \cup {i}]
    /\ UNCHANGED <<srcFile, parser, texFile, images, generated, reparser,
                   logFile, pdfFile, threads>>

select_all_components ==
    /\ gui.alive
    /\ gui' = [gui EXCEPT !.selected = DOMAIN gui.items]
    /\ UNCHANGED <<srcFile, parser, texFile, images, generated, reparser,
                   logFile, pdfFile, threads>>

deselect_all_components ==
    /\ gui.alive
    /\ gui' = [gui EXCEPT !.selected = {}]
    /\ UNCHANGED <<srcFile, parser, texFile, images, generated, reparser,
                   logFile, pdfFile, threads>>

\* get_selected_components: the components of the selected items, in the
\* order of the list
get_selected_components(g) ==
    LET idx == SelectSeq([i \in DOMAIN g.items |-> i], LAMBDA i : i \in g.selected)
    IN  [j \in DOMAIN idx |-> g.items[idx[j]]]

Running(th) == th.pc # "done"

\* generate_pdf with a directory of dirs chosen in the dialog.  Nothing in it looks
\* at self.compilation_thread before the file is written and the attribute
\* is bound to a new thread.  The thread it was bound to loses its last
\* reference: when that thread is still running, Qt may abort the process
\* ("QThread: Destroyed while thread is still running") or the thread runs
\* on; a thread that is done is gone.
generate_pdf(dirs) ==
    /\ gui.alive
    /\ gui.generate_enabled
    /\ Cardinality({t \in DOMAIN threads : Running(threads[t])}) < MaxThreads
    /\ LET selected_components == get_selected_components(gui)
       IN  IF selected_components = <<>>
           THEN UNCHANGED vars
           ELSE \E dir \in dirs, io_ok \in BOOLEAN, destroyed \in BOOLEAN :
                   LET res == GenerateCustomTex(parser.full_content, parser.components,
                                                selected_components, io_ok)
                       replaced_runs == threads # <<>> /\ Running(Last(threads))
                   IN  /\ texFile' = IF res.returned
                                     THEN [texFile EXCEPT ![dir] = res.written]
                                     ELSE texFile
                       /\ images' = [images EXCEPT ![dir] = @ \cup res.images]
                       /\ IF ~res.returned
                          THEN /\ gui' = [gui EXCEPT !.run_progress = <<10>>]
                               /\ threads' = threads
                          ELSE IF replaced_runs /\ destroyed
                          THEN /\ gui' = [gui EXCEPT !.run_progress = <<10, 20>>,
                                                     !.alive = FALSE]
                               /\ threads' = <<>>
                          ELSE /\ gui' = [gui EXCEPT !.run_progress = <<10, 20>>]
                               /\ threads' = Append(SelectSeq(threads, Running),
                                                    NewThread(dir))
                       /\ UNCHANGED <<srcFile, parser, generated, reparser,
                                      logFile, pdfFile>>

-----------------------------------------------------------------------------
(* A client of the LatexParser alone: it parses a source document, has a   *)
(* selection of the components assembled, and reads the result back.       *)

AsmDir == "out1"

\* LatexParser(path), read_file(), extract_components()
AsmLoad ==
    /\ ~parser.made
    /\ \E read_ok \in BOOLEAN :
          parser' = Extract(ReadFile(LatexParser, srcFile, read_ok))
    /\ UNCHANGED <<srcFile, texFile, images, generated, reparser, gui,
                   logFile, pdfFile, threads>>

\* the components at the indices S, in ascending or in descending order
InOrder(components, S, order) ==
    LET asc == SelectSeq([i \in DOMAIN components |-> i], LAMBDA i : i \in S)
    IN  [j \in DOMAIN asc |->
            components[asc[IF order = "ascending" THEN j ELSE Len(asc) + 1 - j]]]

\* generate_custom_tex(selected_components, <AsmDir>/custom_report.tex) for
\* any selection of the components, into a directory that can be written
AsmGenerate ==
    /\ parser.made
    /\ ~generated.called
    /\ \E S \in SUBSET DOMAIN parser.components,
          order \in {"ascending", "descending"} :
          LET selected_components == InOrder(parser.components, S, order)
              res == GenerateCustomTex(parser.full_content, parser.components,
                                       selected_components, TRUE)
          IN  /\ generated' = Call(selected_components, AsmDir, res.returned)
              /\ texFile' = IF res.returned
                            THEN [texFile EXCEPT ![AsmDir] = res.written]
                            ELSE texFile
              /\ images' = [images EXCEPT ![AsmDir] = @ \cup res.images]
    /\ UNCHANGED <<srcFile, parser, reparser, gui, logFile, pdfFile, threads>>

\* a second LatexParser on the assembled file
AsmReExtract ==
    /\ generated.returned
    /\ ~reparser.made
    /\ reparser' = Extract(ReadFile(LatexParser, texFile[AsmDir], TRUE))
    /\ UNCHANGED <<srcFile, parser, texFile, images, generated, gui,
                   logFile, pdfFile, threads>>

-----------------------------------------------------------------------------
(* Specifications                                                          *)

\* the document of the runs of the window
PlainDoc == Doc(ClassPlain, Heading("\\section", <<"k">>))

\* what the runs of pdflatex leave behind in the runs of the window: a log
\* without or with an error line, and a PDF or none
AppLogs == {<<>>, <<TLatexErr, TText, NL>>}
AppPdfs == {"absent", "nonempty"}

\* the directory the user of the window picks, run after run
AppDirs == {"out1"}

NoFiles ==
    /\ texFile = [d \in Dirs |-> NoFile]
    /\ images  = [d \in Dirs |-> {}]
    /\ logFile = [d \in Dirs |-> NoFile]
    /\ pdfFile = [d \in Dirs |-> "absent"]

\* One generate-and-compile run: the window has loaded PlainDoc, all items
\* are selected, and the output directory is fresh or holds the PDF of an
\* earlier run; Generate PDF is clicked once, for any of the directories.
InitCompile ==
    LET loaded == LoadComponents(InitGui, PlainDoc, TRUE)
    IN  /\ srcFile = PlainDoc
        /\ parser = loaded.parser
        /\ reparser = NoParser
        /\ generated = NoCall
        /\ gui = [loaded.gui EXCEPT !.selected = DOMAIN loaded.gui.items]
        /\ threads = <<>>
        /\ texFile = [d \in Dirs |-> NoFile]
        /\ images = [d \in Dirs |-> {}]
        /\ logFile = [d \in Dirs |-> NoFile]
        /\ \E pdf \in {"absent", "nonempty"} :
              pdfFile = [d \in Dirs |-> IF d = "out1" THEN pdf ELSE "absent"]

\* the one click on Generate PDF
GenerateOnce ==
    /\ gui.run_progress = <<>>
    /\ generate_pdf(Dirs)

NextCompile ==
    \/ GenerateOnce
    \/ \E t \in DOMAIN threads : CompileBegin(t)
    \/ \E t \in DOMAIN threads : CompilePass1(t, Logs)
    \/ \E t \in DOMAIN threads : CompileScanLog(t)
    \/ \E t \in DOMAIN threads : CompilePass2(t, PassLogs, PdfStates)
    \/ \E t \in DOMAIN threads : CompilePass3(t, PassLogs, PdfStates)
    \/ \E t \in DOMAIN threads : CompileCheckArtifact(t)
    \/ \E t \in DOMAIN threads : RunFinish(t)

SpecCompile == InitCompile /\ [][NextCompile]_vars

\* The parser and its client, on every source document of Docs.
InitAsm ==
    /\ srcFile \in Docs
    /\ parser = NoParser
    /\ reparser = NoParser
    /\ generated = NoCall
    /\ gui = InitGui
    /\ threads = <<>>
    /\ NoFiles

NextAsm ==
    \/ AsmLoad
    \/ AsmGenerate
    \/ AsmReExtract

SpecAsm == InitAsm /\ [][NextAsm]_vars

\* The window and its threads: any sequence of actions of the user who
\* loads PlainDoc and has reports generated into one directory, the threads
\* running along.
InitApp ==
    /\ srcFile = PlainDoc
    /\ parser = NoParser
    /\ reparser = NoParser
    /\ generated = NoCall
    /\ gui = InitGui
    /\ threads = <<>>
    /\ NoFiles

NextApp ==
    \/ BrowseFile
    \/ \E i \in DOMAIN gui.items : ClickItem(i)
    \/ select_all_components
    \/ deselect_all_components
    \/ generate_pdf(AppDirs)
    \/ \E t \in DOMAIN threads : CompileBegin(t)
    \/ \E t \in DOMAIN threads : CompilePass1(t, AppLogs)
    \/ \E t \in DOMAIN threads : CompileScanLog(t)
    \/ \E t \in DOMAIN threads : CompilePass2(t, AppLogs, AppPdfs)
    \/ \E t \in DOMAIN threads : CompilePass3(t, AppLogs, AppPdfs)
    \/ \E t \in DOMAIN threads : CompileCheckArtifact(t)
    \/ \E t \in DOMAIN threads : RunFinish(t)

SpecApp == InitApp /\ [][NextApp]_vars

-----------------------------------------------------------------------------
(* Properties of one compilation run.                                      *)

IsPrefix(s, t) == Len(s) <= Len(t) /\ s = SubSeq(t, 1, Len(s))

\* msg.split("\n")
RECURSIVE SplitNL(_)
SplitNL(msg) ==
    LET nl == FirstTok(msg, 1, NL)
    IN  IF nl = NoIdx THEN <<msg>>
        ELSE <<SubSeq(msg, 1, nl - 1)>> \o SplitNL(SubSeq(msg, nl + 1, Len(msg)))

ThreePasses == <<CmdFirst, CmdFull, CmdFull>>

Returned(th) == th.pc \in {"return", "done"}

ThreadSet == {threads[t] : t \in DOMAIN threads}

\* C1 as stated: every run invokes Pass1, Pass2, Pass3 in this order, each
\* once, unless the pass-1 log yields classified errors, and then Pass1 alone.
C1_AsStated ==
    \A th \in ThreadSet :
        Returned(th) =>
            th.launched = IF th.ret.kind = "errors" THEN <<CmdFirst>> ELSE ThreePasses

\* C1 amended: the command lines a run has started are always a prefix of
\* Pass1, Pass2, Pass3 (fixed order, no pass repeated or retried); a run
\* that found classified errors started Pass1 alone; a run that reaches the
\* artifact check started all three; a run started fewer than three without
\* classified errors only when an exception ended it.
C1_PassOrder ==
    \A th \in ThreadSet :
        /\ IsPrefix(th.launched, ThreePasses)
        /\ th.pc = "artifact" => th.launched = ThreePasses
        /\ Returned(th) =>
              CASE th.ret.kind = "errors"    -> th.launched = <<CmdFirst>>
                [] th.ret.kind = "exception" -> TRUE
                [] OTHER                     -> th.launched = ThreePasses

C1_Witness ==
    \E th \in ThreadSet :
        th.pc = "done" /\ th.ret.success /\ th.launched = ThreePasses

\* C2 as stated: without classified errors the run succeeds exactly when the
\* PDF exists with a size above 0, and fails with the generic message if not.
C2_AsStated ==
    \A th \in ThreadSet :
        (Returned(th) /\ th.ret.kind # "errors") =>
            /\ th.ret.success <=> pdfFile[th.output_dir] = "nonempty"
            /\ ~th.ret.success => th.ret.msg = PdfMissingMsg

\* C2 amended: a run that reaches the artifact check (no classified errors,
\* no step raised) succeeds exactly when the PDF exists with a size above 0,
\* and fails with the generic message if not, whatever passes 2 and 3 left in
\* the log; a run succeeds in no other way, and a run in which a step
\* raised fails with the text of the exception.
C2_ArtifactDecides ==
    \A th \in ThreadSet :
        Returned(th) =>
            /\ th.launched = ThreePasses /\ th.ret.kind # "exception" =>
                  /\ th.ret.success <=> pdfFile[th.output_dir] = "nonempty"
                  /\ ~th.ret.success => th.ret.msg = PdfMissingMsg
            /\ th.ret.success => th.launched = ThreePasses
            /\ th.ret.kind = "exception" =>
                  ~th.ret.success /\ th.ret.msg # PdfMissingMsg

\* a run that succeeds although pass 3 left an error line in the log
C2_Witness ==
    \E th \in ThreadSet :
        /\ th.pc = "done" /\ th.ret.success
        /\ logFile[th.output_dir] = <<TLatexErr, TText, NL>>

\* C3: a pass-1 log with a match of a category's pattern makes the run fail
\* with a message that has a line tagged with that category, for each of
\* the six categories.
C3_EveryCategoryReported ==
    \A th \in ThreadSet :
        (Returned(th) /\ th.log_content # NoFile) =>
            \A k \in DOMAIN error_patterns :
                FindIter(error_patterns[k], th.log_content, 1) # <<>> =>
                    /\ th.ret.kind = "errors"
                    /\ \E line \in Range(SplitNL(th.ret.msg)) :
                          /\ line # <<>>
                          /\ line[1] = error_patterns[k].error_type \o ": "

\* C4 as stated: the classified list holds every match of every pattern in
\* the order of their positions in the log.
C4_AsStated ==
    \A th \in ThreadSet :
        (Returned(th) /\ th.ret.kind = "errors") =>
            SplitNL(th.ret.msg) = Strs(Sorted(AllMatches(th.log_content), "file"))

\* C4 amended: a list is produced only from a log without a match of the two
\* patterns that have no group; it holds every match of every pattern,
\* ordered by pattern (the order of error_patterns) and, within one pattern,
\* by position in the log.
C4_PatternThenFileOrder ==
    \A th \in ThreadSet :
        (Returned(th) /\ th.ret.kind = "errors") =>
            /\ \A m \in AllMatches(th.log_content) :
                  error_patterns[m.pat].shape # "literal"
            /\ SplitNL(th.ret.msg)
                  = Strs(Sorted(AllMatches(th.log_content), "pattern"))

\* a list of two entries whose order is not the order of the log
C4_Witness ==
    \E th \in ThreadSet :
        /\ th.pc = "done" /\ th.ret.kind = "errors"
        /\ th.log_content = <<TMissing, NL, TLatexErr, NL>>
        /\ SplitNL(th.ret.msg) = << <<"LaTeX Error: ">>, <<"Missing Element: ">> >>

FinishedSignals(th) == SelectSeq(th.signals, LAMBDA g : g.sig = "finished")

\* C7: every run ends in exactly one finished signal, which carries the
\* result of the run and is the last signal of the thread; until then none
\* is emitted, and the thread is never anywhere but in a step of run() that
\* leads there or done (no exception leaves the worker).
C7_OneFinalResult ==
    \A th \in ThreadSet :
        /\ th.pc \in {"compile", "pass1", "scan", "pass2", "pass3",
                      "artifact", "return", "done"}
        /\ th.pc # "done" => FinishedSignals(th) = <<>>
        /\ th.pc = "done" =>
              /\ FinishedSignals(th) = <<Finished(th.ret.success, th.ret.msg)>>
              /\ Last(th.signals) = Finished(th.ret.success, th.ret.msg)
              /\ th.ret.kind \in {"exception", "errors", "text"} => ~th.ret.success

\* a run ended by an exception, reported by finished(False, str(e))
C7_Witness ==
    \E th \in ThreadSet :
        /\ th.pc = "done" /\ th.ret.kind = "exception"
        /\ Last(th.signals) = Finished(FALSE, th.ret.msg)

-----------------------------------------------------------------------------
(* Properties of one generate-and-compile run: the progress values.        *)

Checkpoints == <<10, 20, 40, 80, 100>>

\* the values of the update_progress signals of a thread, in order
ProgressOf(th) ==
    LET ps == SelectSeq(th.signals, LAMBDA g : g.sig = "update_progress")
    IN  [i \in DOMAIN ps |-> ps[i].val]

\* the progress notifications of the run: those of generate_pdf, then those
\* of the thread it started
RunProgress ==
    gui.run_progress \o (IF threads = <<>> THEN <<>> ELSE ProgressOf(Last(threads)))

\* values drawn from the checkpoints, never decreasing, none reached before
\* every smaller checkpoint was emitted
InCheckpointOrder(ps) ==
    /\ \A i \in DOMAIN ps : ps[i] \in Range(Checkpoints)
    /\ \A i, j \in DOMAIN ps : i < j => ps[i] <= ps[j]
    /\ \A i \in DOMAIN ps : \A c \in Range(Checkpoints) :
          c < ps[i] => \E j \in 1..(i - 1) : ps[j] = c

\* the run failed at pass 1: classified errors, or an exception, before pass
\* 2 was announced
FailedAtPass1(th) ==
    /\ Returned(th) /\ ~th.ret.success
    /\ Status("Generating PDF...") \notin Range(th.signals)

\* C6: the progress values of one generate-and-compile run are checkpoints
\* (10, 20, 40, 80, 100), emitted in this order and never decreasing; 100 is
\* emitted only on a run that succeeds, every run that succeeds emits it,
\* and a run that fails at pass 1 emits no value above 20.
C6_ProgressCheckpoints ==
    /\ InCheckpointOrder(RunProgress)
    /\ \A th \in ThreadSet :
          /\ 100 \in Range(ProgressOf(th)) => th.ret.success
          /\ (Returned(th) /\ th.ret.success) => Last(RunProgress) = 100
          /\ FailedAtPass1(th) => \A i \in DOMAIN RunProgress : RunProgress[i] <= 20

\* a run that succeeded, with all its notifications
C6_Witness ==
    \E th \in ThreadSet :
        /\ th.pc = "done" /\ th.ret.success
        /\ RunProgress = <<10, 20, 20, 40, 80, 100>>

-----------------------------------------------------------------------------
(* Properties of the window and its threads.                               *)

RunningOn(d) == {t \in DOMAIN threads : Running(threads[t]) /\ threads[t].tex_file = d}

\* C5: no two CompilationThreads run on the same .tex file at a time, and
\* the .tex file of a running CompilationThread is not rewritten.
C5_OneCompilationPerFile ==
    /\ [](\A d \in Dirs : Cardinality(RunningOn(d)) <= 1)
    /\ [][\A d \in Dirs : texFile'[d] # texFile[d] => RunningOn(d) = {}]_vars

-----------------------------------------------------------------------------
(* Properties of assembly.                                                 *)

Reverse(s) == [i \in DOMAIN s |-> s[Len(s) + 1 - i]]

\* the components the call of generate_custom_tex was given, from their ids
SelectionOf(ids) ==
    [i \in DOMAIN ids |-> CHOOSE c \in Range(parser.components) : c.id = ids[i]]

\* the selected components that are not preamble components, as a set
Chosen ==
    {c \in Range(parser.components) :
        c.id \in Range(generated.selected) /\ ~c.is_preamble}

\* a set of components in ascending order of start
RECURSIVE ByStart(_)
ByStart(S) ==
    IF S = {} THEN <<>>
    ELSE LET c == CHOOSE c \in S : \A d \in S : c.start <= d.start
         IN  <<c>> \o ByStart(S \ {c})

\* the assembled document, its preamble and what follows \begin{document}
Assembled == texFile[generated.output_dir]

AssembledPreamble == SubSeq(Assembled, 1, Find(Assembled, BeginDocument, 1) - 1)

AssembledBody ==
    SubSeq(Assembled, Find(Assembled, BeginDocument, 1) + Len(BeginDocument),
           Len(Assembled))

\* the bodies of the chosen components in ascending order of start, each
\* once, stripped and with its images relocated, each after a blank line
ExpectedBody ==
    LET chosen == ByStart(Chosen)
    IN  Concat([i \in DOMAIN chosen |->
                    <<NL, NL>> \o CopyImages(Strip(chosen[i].content))])
            \o <<NL, NL>> \o EndDocument \o <<NL>>

\* C8: what the assembled document holds after \begin{document} is the
\* bodies of exactly the selected non-preamble components, each once, in
\* ascending order of start, whatever the order the selection was passed
\* in; the same selection passed in the reverse order gives the same
\* document; selected preamble components contribute no body.
C8_SelectedBodiesInDocumentOrder ==
    generated.returned =>
        /\ AssembledBody = ExpectedBody
        /\ Assembled = GenerateCustomTex(parser.full_content, parser.components,
                           SelectionOf(Reverse(generated.selected)), TRUE).written

\* a selection of a preamble component and of two others, passed in
\* descending order of start
C8_Witness ==
    /\ generated.returned
    /\ Cardinality(Chosen) >= 2
    /\ \E c \in Range(SelectionOf(generated.selected)) : c.is_preamble
    /\ LET sel == SelectionOf(generated.selected)
       IN  \A i \in 1..(Len(sel) - 1) : sel[i].start > sel[i + 1].start

\* the number of places of s where lit occurs
Count(s, lit) == Cardinality({p \in DOMAIN s : StartsAt(s, p, lit)})

GraphicsDeclarations(s) == Count(s, <<LB, "graphicx", RB>>)

\* the preamble of the source
SourcePreamble == SubSeq(parser.full_content, 1, DocBegin(parser.full_content))

\* C9: when the preamble of the source declares the graphics package in
\* draft mode or its document class options hold draft, the preamble of the
\* assembled document holds no draft token and exactly one declaration of
\* the graphics package, which is in final mode; when the preamble of the
\* source does not include the graphics package, the assembled preamble holds
\* exactly one declaration, in final mode.
C9_FinalModeGraphics ==
    generated.returned =>
        /\ (SubGraphicxDraft(SourcePreamble) # SourcePreamble
                \/ SubClassDraft(SourcePreamble) # SourcePreamble) =>
              /\ "draft" \notin Range(AssembledPreamble)
              /\ GraphicsDeclarations(AssembledPreamble) = 1
              /\ Count(AssembledPreamble, UsepackageFinal) = 1
        /\ GraphicsDeclarations(SourcePreamble) = 0 =>
              /\ GraphicsDeclarations(AssembledPreamble) = 1
              /\ Count(AssembledPreamble, UsepackageFinal) = 1

-----------------------------------------------------------------------------
(* Properties of the round trip: assembly, then extraction again.          *)

Names(components) == [i \in DOMAIN components |-> components[i].name]

\* s is t with some of its elements left out
RECURSIVE IsSubseq(_, _)
IsSubseq(s, t) ==
    IF s = <<>> THEN TRUE
    ELSE IF t = <<>> THEN FALSE
    ELSE IF s[1] = t[1] THEN IsSubseq(Tail(s), Tail(t))
    ELSE IsSubseq(s, Tail(t))

HeadCommands == {"\\section", "\\subsection", "\\subsubsection"}

\* every heading command between the markers of the document has a braced,
\* non-empty title without a brace or a heading command in it
WellFormed(full_content) ==
    LET text == SubSeq(full_content, DocBegin(full_content) + 1, DocEnd(full_content))
    IN  \A p \in DOMAIN text :
            text[p] \in HeadCommands =>
                \E close \in (p + 3)..Len(text) :
                    /\ text[p + 1] = LB
                    /\ text[close] = RB
                    /\ \A q \in (p + 2)..(close - 1) :
                          text[q] \notin HeadCommands \cup {LB, RB}

\* component c lies within component d
Within(c, d) == d.start <= c.start /\ c.end <= d.end

\* the components whose text component d holds: d and those inside it
Inside(d) ==
    SelectSeq(parser.components, LAMBDA c : ~c.is_preamble /\ Within(c, d))

\* the paths component d has rewritten wherever they occur in its text:
\* those of its \graphicspath and \figure references to files that exist
PathsRewritten(d) ==
    {m.group1 : m \in {n \in Range(FindImages(image_patterns[2], Strip(d.content), 1)
                                     \o FindImages(image_patterns[3], Strip(d.content), 1)) :
                          n.group1 \in ExistingImages}}

\* no chosen component rewrites a path that occurs in a title it holds
TitlesKept ==
    \A d \in Chosen : \A path \in PathsRewritten(d) :
        \A i \in DOMAIN Inside(d) : ~Contains(Inside(d)[i].name, path)

\* no chosen component lies within another
NoNesting == \A c, d \in Chosen : c # d => ~Within(c, d)

\* the title of a component held by the chosen component d, after d has
\* had its images relocated: what is replaced in the text of d is replaced
\* in the title
Relocated(name, d) == RewriteAll(name, ImageMatches(Strip(d.content)))

\* the titles of the document class, then for each chosen component in
\* ascending order of start the titles of the components it holds
ExpectedNames ==
    LET chosen == ByStart(Chosen)
    IN  Names(SelectSeq(parser.components, LAMBDA c : c.is_preamble))
            \o Concat([i \in DOMAIN chosen |->
                          [j \in DOMAIN Inside(chosen[i]) |->
                              Relocated(Inside(chosen[i])[j].name, chosen[i])]])

-----------------------------------------------------------------------------
(* Extraction alone: a document is parsed, and extract_components is       *)
(* called on the parser a second time.                                     *)

MaxHeadings == 4        \* headings in the body of a document of headings

\* a heading of one of the three levels, alone or followed by a line of text
HeadingPieces ==
    {Heading(cmd, <<"k">>) \o text :
        cmd \in HeadCommands, text \in {<<>>, <<"y", NL>>}}

\* documents of headings in any sequence of levels
HeadingDocs ==
    {Doc(ClassPlain, Concat(b)) : b \in SeqsUpTo(HeadingPieces, MaxHeadings)}

\* documents with a second \documentclass, in the preamble or in the body,
\* and one with a heading after \end{document}
ClassDocs ==
    { Doc(ClassPlain \o <<"\\documentclass", LB, "book", RB, NL>>,
          Heading("\\section", <<"k">>)),
      Doc(ClassPlain, Heading("\\section", <<"k">>)
                          \o <<"\\documentclass", LB, "book", RB, NL>>),
      Doc(ClassPlain, Heading("\\section", <<"k">>))
          \o Heading("\\subsection", <<"z">>) }

ExtractDocs == Docs \cup HeadingDocs \cup ClassDocs

\* extract_components() once more on the parser that has read the file;
\* reparser is the object after this second call
ExtractAgain ==
    /\ parser.made
    /\ ~reparser.made
    /\ reparser' = Extract(parser)
    /\ UNCHANGED <<srcFile, parser, texFile, images, generated, gui,
                   logFile, pdfFile, threads>>

InitExtract ==
    /\ srcFile \in ExtractDocs
    /\ parser = NoParser
    /\ reparser = NoParser
    /\ generated = NoCall
    /\ gui = InitGui
    /\ threads = <<>>
    /\ NoFiles

NextExtract ==
    \/ AsmLoad
    \/ ExtractAgain

SpecExtract == InitExtract /\ [][NextExtract]_vars

-----------------------------------------------------------------------------
(* Properties of extraction.                                               *)

\* the text between the markers of the document, and the text before it
BodyRange(full_content) ==
    SubSeq(full_content, DocBegin(full_content) + 1, DocEnd(full_content))

PreambleRange(full_content) == SubSeq(full_content, 1, DocBegin(full_content))

\* the type of the component a heading command starts, and its level
TypeOf == [cmd \in HeadCommands |->
              IF cmd = "\\section" THEN "Section"
              ELSE IF cmd = "\\subsection" THEN "Subsection"
              ELSE "Subsubsection"]

LevelOf == [cmd \in HeadCommands |->
               IF cmd = "\\section" THEN 1
               ELSE IF cmd = "\\subsection" THEN 2
               ELSE 3]

\* the offsets (from 0, into the whole file) of the heading commands of the
\* body range
HeadingOffsets(full_content, cmds) ==
    {p - 1 : p \in {q \in (DocBegin(full_content) + 1)..DocEnd(full_content) :
                       full_content[q] \in cmds}}

\* a well-formed document: well-formed headings between the markers, the
\* end marker after the begin marker, at most one \documentclass before it
WellFormedDocument(full_content) ==
    /\ WellFormed(full_content)
    /\ DocBegin(full_content) <= DocEnd(full_content)
    /\ Count(PreambleRange(full_content), <<"\\documentclass">>) <= 1

OfType(components, type) == SelectSeq(components, LAMBDA c : c.type = type)

Ids(components) == [i \in DOMAIN components |-> components[i].id]

\* C11: for a well-formed document with N section, M subsection and K
\* subsubsection headings between its markers, extraction gives N Section,
\* M Subsection and K Subsubsection components, so N+M+K components that
\* are not preamble components, and at most one Document Class component;
\* the list is in ascending order of start, start < end for each component;
\* the id of the i-th component of a type is <type>_<i>, the ids are pairwise
\* distinct, and a second extraction of the unchanged document gives the
\* same components with the same ids.
C11_ExtractionContract ==
    (parser.made /\ WellFormedDocument(parser.full_content)) =>
        LET full  == parser.full_content
            comps == parser.components
        IN  /\ \A cmd \in HeadCommands :
                  Len(OfType(comps, TypeOf[cmd]))
                      = Cardinality(HeadingOffsets(full, {cmd}))
            /\ Len(SelectSeq(comps, LAMBDA c : ~c.is_preamble))
                  = Cardinality(HeadingOffsets(full, HeadCommands))
            /\ Len(SelectSeq(comps, LAMBDA c : c.is_preamble)) <= 1
            /\ \A c \in Range(comps) : c.is_preamble <=> c.type = "Document Class"
            /\ \A i, j \in DOMAIN comps : i < j => comps[i].start < comps[j].start
            /\ \A c \in Range(comps) : c.start < c.end
            /\ \A i, j \in DOMAIN comps : i # j => comps[i].id # comps[j].id
            /\ \A type \in {"Document Class"} \cup Range(TypeOf) :
                  \A i \in DOMAIN OfType(comps, type) :
                      OfType(comps, type)[i].id = type \o "_" \o ToString(i)
            /\ reparser.made =>
                  /\ Ids(reparser.components) = Ids(comps)
                  /\ reparser.components = comps

\* a well-formed document with a document class and headings of the three
\* levels, a Subsection before the first Section and two components of one
\* type, extracted twice
C11_Witness ==
    /\ parser.made /\ reparser.made
    /\ WellFormedDocument(parser.full_content)
    /\ \A cmd \in HeadCommands :
          HeadingOffsets(parser.full_content, {cmd}) # {}
    /\ Len(OfType(parser.components, "Document Class")) = 1
    /\ Len(OfType(parser.components, "Subsection")) = 2
    /\ \E i, j \in DOMAIN parser.components :
          /\ i < j
          /\ parser.components[i].type = "Subsection"
          /\ parser.components[j].type = "Section"

\* the heading command of a component that is not a preamble component
CommandOf(c) == CHOOSE cmd \in HeadCommands : TypeOf[cmd] = c.type

\* the heading commands of the level of cmd and of the levels above it
SameOrHigher(cmd) == {other \in HeadCommands : LevelOf[other] <= LevelOf[cmd]}

\* where the body of a heading at offset start ends: the offset of the next
\* heading of the same or a higher level, or the end of the body range
NextStop(full_content, start, cmd) ==
    LET later == {p \in HeadingOffsets(full_content, SameOrHigher(cmd)) : p > start}
    IN  IF later = {} THEN DocEnd(full_content)
        ELSE CHOOSE p \in later : \A q \in later : p <= q

\* the components that are not preamble components, as a set
Sectioning == {c \in Range(parser.components) : ~c.is_preamble}

\* C12: in a document whose headings between the markers are well formed,
\* every heading starts a component of its level, and the body of each
\* component is the text from its own heading up to, and without, the next
\* heading of the same or a higher level, or up to the end of the body range
\* when there is none: a Section ends at the next Section, a Subsection at the
\* next Subsection or Section, a Subsubsection at the next heading of any
\* level.  Hence no body holds a later heading of its own or of a higher
\* level (a Subsection holds no text of a later Section), and the body of a
\* component holds, whole and in place, the body of every component that
\* starts inside it (a Section holds its Subsections and Subsubsections).
C12_BodyBoundaries ==
    (parser.made /\ WellFormed(parser.full_content)
                 /\ DocBegin(parser.full_content) <= DocEnd(parser.full_content)) =>
        LET full == parser.full_content
        IN  /\ \A cmd \in HeadCommands :
                  {c.start : c \in {d \in Sectioning : d.type = TypeOf[cmd]}}
                      = HeadingOffsets(full, {cmd})
            /\ \A c \in Sectioning :
                  /\ full[c.start + 1] = CommandOf(c)
                  /\ c.end = NextStop(full, c.start, CommandOf(c))
                  /\ c.content = SubSeq(full, c.start + 1, c.end)
                  /\ \A p \in 2..Len(c.content) :
                        c.content[p] \notin SameOrHigher(CommandOf(c))
                  /\ \A d \in Sectioning :
                        (c.start < d.start /\ d.start < c.end) =>
                            /\ LevelOf[CommandOf(d)] > LevelOf[CommandOf(c)]
                            /\ d.end <= c.end
                            /\ d.content = SubSeq(c.content, d.start - c.start + 1,
                                                  d.end - c.start)

\* a Section that holds a Subsection that holds a Subsubsection, all three
\* ended by a later Section, and a Subsubsection ended by a later Subsection
C12_Witness ==
    /\ parser.made /\ WellFormed(parser.full_content)
    /\ \E c, d, e \in Sectioning :
          /\ c.type = "Section" /\ d.type = "Subsection" /\ e.type = "Subsubsection"
          /\ c.start < d.start /\ d.start < e.start /\ e.start < c.end
          /\ c.end < DocEnd(parser.full_content)
          /\ d.end = c.end /\ e.end = c.end
          /\ Len(e.content) > 4

=============================================================================
